---- MODULE Spec2Model ----
(***************************************************************************)
(* Model of libgoserver.go: an embeddable HTTP server whose route table,   *)
(* middleware list and background-task subsystem are driven at runtime.    *)
(*                                                                         *)
(* Go strings that the code concatenates or case-converts (paths, methods) *)
(* are sequences of one-character strings, so that path + method is \o and *)
(* strings.ToUpper / strings.ToLower work character by character.  Opaque  *)
(* strings (messages, descriptions, middleware names) are TLA+ strings.    *)
(***************************************************************************)
EXTENDS Integers, Sequences, FiniteSets, TLC

VARIABLES
    routes,       \* map[string]RouteInfo: a function from keys to RouteInfo
    middlewares,  \* []func(http.Handler) http.Handler, by wrapper name
    srv,          \* lifecycle of StartServer: created/running/shuttingdown/stopped
    handler,      \* server.Handler: the chain installed by StartServer
    ctxDone,      \* taskCtx has been cancelled (taskCancel was called)
    inflight,     \* requests accepted by the server whose handler has not returned
    resp,         \* the response most recently written to a client
    apidoc,       \* the Paths object of the document ServeOpenAPI last produced
    tasks,        \* the TaskManager goroutines, in spawn order
    chans,        \* the channels made by taskPool.New: number of tokens in each
    now,          \* the clock read by time.Now().UnixNano()
    configured,   \* history: (path, METHOD) -> message of its latest RegisterRoute
    mwlog,        \* history: the RegisterMiddleware calls made, in order
    nreg,         \* number of RegisterRoute calls made
    nreq,         \* number of requests accepted
    dependencies, \* map[string]interface{}: a function from names to values
    deplog,       \* history: the accepted RegisterDependency calls, in order
    depResult     \* the (val, exists) most recently returned by GetDependency

depvars == <<dependencies, deplog, depResult>>

vars == <<routes, middlewares, srv, handler, ctxDone, inflight, resp, apidoc,
          tasks, chans, now, configured, mwlog, nreg, nreq, depvars>>

-----------------------------------------------------------------------------
(* Bounds of the model *)

MaxRegs == 2        \* RegisterRoute calls
MaxReqs == 1        \* requests accepted
MaxMw == 3          \* RegisterMiddleware calls
MaxClock == 1       \* clock advances
MaxTasks == 2       \* requests that spawn a task, where the tasks run
MaxDeps == 3       \* RegisterDependency calls accepted

(* Program constants *)

K == 10             \* make(chan struct{}, 10)

-----------------------------------------------------------------------------
(* Strings *)

LowerLetters == <<"a","b","c","d","e","f","g","h","i","j","k","l","m",
                  "n","o","p","q","r","s","t","u","v","w","x","y","z">>
UpperLetters == <<"A","B","C","D","E","F","G","H","I","J","K","L","M",
                  "N","O","P","Q","R","S","T","U","V","W","X","Y","Z">>

UpperChar(c) ==
    IF \E i \in 1..26 : LowerLetters[i] = c
    THEN UpperLetters[CHOOSE i \in 1..26 : LowerLetters[i] = c]
    ELSE c

LowerChar(c) ==
    IF \E i \in 1..26 : UpperLetters[i] = c
    THEN LowerLetters[CHOOSE i \in 1..26 : UpperLetters[i] = c]
    ELSE c

ToUpper(s) == [i \in 1..Len(s) |-> UpperChar(s[i])]
ToLower(s) == [i \in 1..Len(s) |-> LowerChar(s[i])]

HasPrefix(s, p) == Len(s) >= Len(p) /\ SubSeq(s, 1, Len(p)) = p

(* A C string pointer handed over the foreign-function boundary: nil, or a
   pointer to one string. *)
NULL == <<>>
CStr(s) == <<s>>
IsNil(p) == Len(p) = 0
GoString(p) == p[1]

-----------------------------------------------------------------------------
(* Inputs *)

PathA == <<"/","a">>
PathAP == <<"/","a","P">>
OpenAPIPattern == <<"/","o","p","e","n","a","p","i",".","j","s","o","n">>
SwaggerPattern == <<"/","s","w","a","g","g","e","r","/">>
SwaggerFile == SwaggerPattern \o <<"x">>

MethodPost == <<"P","O","S","T">>
MethodOst == <<"O","S","T">>

RegPaths == {PathA, PathAP, OpenAPIPattern}
RegMethods == {ToLower(MethodPost), MethodOst}
Messages == {"m1", "m2"}
Descriptions == {"d"}

ReqPaths == {PathA, PathAP, OpenAPIPattern, SwaggerFile}
ReqMethods == {MethodPost, ToLower(MethodPost), MethodOst}

MwNames == {"logging", "cors"}

NoMessage == "<none>"
NoResponse == [kind |-> "none"]


(* RegisterRoute's argument lists: every combination of the strings above,
   and the lists with one nil pointer. *)
RegCalls ==
    {<<CStr(p), CStr(m), CStr(msg), CStr(d)>> :
        p \in RegPaths, m \in RegMethods, msg \in Messages, d \in Descriptions}
    \cup {<<NULL, CStr(MethodOst), CStr("m1"), CStr("d")>>,
          <<CStr(PathA), NULL, CStr("m1"), CStr("d")>>,
          <<CStr(PathA), CStr(MethodOst), NULL, CStr("d")>>,
          <<CStr(PathA), CStr(MethodOst), CStr("m1"), NULL>>}

(* RegisterRoute's argument lists with one empty string: a non-nil pointer to
   a C string of length 0. *)
EmptyFieldCalls ==
    {<<CStr(<<>>), CStr(MethodOst), CStr("m1"), CStr("d")>>,
     <<CStr(PathA), CStr(<<>>), CStr("m1"), CStr("d")>>,
     <<CStr(PathA), CStr(MethodOst), CStr(""), CStr("d")>>,
     <<CStr(PathA), CStr(MethodOst), CStr("m1"), CStr("")>>}

(* RegisterMiddleware's argument lists: cName, cEnabled. *)
MwCalls ==
    {<<CStr(n), e>> : n \in MwNames, e \in {0, 1}}
    \cup {<<CStr("logging"), -1>>, <<NULL, 1>>}

-----------------------------------------------------------------------------
(* Registry *)

RouteInfo(path, method, message, desc) ==
    [Path |-> path, Method |-> method, Message |-> message,
     Description |-> desc, Parameters |-> <<>>,
     Responses |-> [code \in {200} |-> "Successful response"]]

(* key := path + method *)
RouteKey(path, method) == path \o method

(* m[key] = value on a Go map *)
MapPut(m, key, value) ==
    [k \in DOMAIN m \cup {key} |-> IF k = key THEN value ELSE m[k]]

EmptyMap == [k \in {} |-> NoMessage]

(* The table after RegisterRoute's locked section. *)
StoreRoute(rs, path, method, message, desc) ==
    MapPut(rs, RouteKey(path, method), RouteInfo(path, method, message, desc))

RegisterRoute(cPath, cMethod, cMessage, cDesc) ==
    /\ nreg < MaxRegs
    /\ nreg' = nreg + 1
    /\ IF IsNil(cPath) \/ IsNil(cMethod) \/ IsNil(cMessage) \/ IsNil(cDesc)
       THEN UNCHANGED <<routes, configured>>
       ELSE LET path == GoString(cPath)
                method == ToUpper(GoString(cMethod))
                message == GoString(cMessage)
                desc == GoString(cDesc)
            IN /\ routes' = StoreRoute(routes, path, method, message, desc)
               /\ configured' = MapPut(configured, <<path, method>>, message)
    /\ UNCHANGED <<middlewares, srv, handler, ctxDone, inflight, resp, apidoc,
                   tasks, chans, now, mwlog, nreq, depvars>>

(* middlewares[i](next): the handler as the sequence of its wrappers,
   outermost first, ending in the mux. *)
Wrap(mw, next) == <<mw>> \o next

RECURSIVE WrapFrom(_, _, _)
WrapFrom(mws, i, h) ==
    IF i < 1 THEN h ELSE WrapFrom(mws, i - 1, Wrap(mws[i], h))

(* for i := len(middlewares) - 1; i >= 0; i-- { handler = middlewares[i](handler) } *)
BuildChain(mws) == WrapFrom(mws, Len(mws), <<"mux">>)

NoHandler == <<>>

(* The switch of RegisterMiddleware: the sequence after a call that got past
   the nil and enabled checks. *)
AppendAnyMiddleware(mws, name) ==
    IF name = "logging" THEN Append(mws, "loggingMiddleware") ELSE Append(mws, name)

AppendMiddleware(mws, name) ==
    IF name = "logging" THEN Append(mws, "loggingMiddleware") ELSE mws

RegisterMiddlewareRebuilding(cName, cEnabled) ==
    /\ Len(mwlog) < MaxMw
    /\ mwlog' = Append(mwlog, [name |-> cName, enabled |-> cEnabled])
    /\ IF IsNil(cName)
       THEN UNCHANGED middlewares
       ELSE IF ~(cEnabled # 0)
       THEN UNCHANGED middlewares
       ELSE middlewares' = AppendMiddleware(middlewares, GoString(cName))
    /\ handler' = IF srv = "created" THEN handler ELSE BuildChain(middlewares')
    /\ UNCHANGED <<routes, srv, ctxDone, inflight, resp, apidoc,
                   tasks, chans, now, configured, nreg, nreq, depvars>>

RegisterMiddleware(cName, cEnabled) ==
    /\ Len(mwlog) < MaxMw
    /\ mwlog' = Append(mwlog, [name |-> cName, enabled |-> cEnabled])
    /\ IF IsNil(cName)
       THEN UNCHANGED middlewares
       ELSE IF ~(cEnabled # 0)
       THEN UNCHANGED middlewares
       ELSE middlewares' = AppendMiddleware(middlewares, GoString(cName))
    /\ UNCHANGED <<routes, srv, handler, ctxDone, inflight, resp, apidoc,
                   tasks, chans, now, configured, nreg, nreq, depvars>>

-----------------------------------------------------------------------------
(* Dependencies: RegisterDependency and GetDependency *)

DepNames == {"db", "auth"}
DepValues == {"v1", "v2"}

(* RegisterDependency's argument lists: cName, cValue. *)
DepCalls ==
    {<<CStr(n), CStr(v)>> : n \in DepNames, v \in DepValues}
        \cup {<<NULL, CStr("v1")>>, <<CStr("db"), NULL>>}

(* The nil interface value a map read yields for an absent key. *)
NilValue == "<nil>"
NoResult == [name |-> "", val |-> NilValue, exists |-> FALSE]

(* A store that keeps the value first written under a name. *)
StoreDependencyOnce(deps, name, value) ==
    IF name \in DOMAIN deps THEN deps ELSE MapPut(deps, name, value)

(* dependencies[name] = value *)
StoreDependency(deps, name, value) == MapPut(deps, name, value)

RegisterDependency(cName, cValue) ==
    /\ Len(deplog) < MaxDeps
    /\ IF IsNil(cName) \/ IsNil(cValue)
       THEN UNCHANGED <<dependencies, deplog>>
       ELSE /\ dependencies' =
                StoreDependency(dependencies, GoString(cName), GoString(cValue))
            /\ deplog' = Append(deplog, <<GoString(cName), GoString(cValue)>>)
    /\ UNCHANGED <<routes, middlewares, srv, handler, ctxDone, inflight, resp,
                   apidoc, tasks, chans, now, configured, mwlog, nreg, nreq,
                   depResult>>

(* val, exists := dependencies[name] *)
DependencyLookup(deps, name) ==
    [name |-> name,
     val |-> IF name \in DOMAIN deps THEN deps[name] ELSE NilValue,
     exists |-> name \in DOMAIN deps]

GetDependency(name) ==
    /\ depResult' = DependencyLookup(dependencies, name)
    /\ UNCHANGED <<routes, middlewares, srv, handler, ctxDone, inflight, resp,
                   apidoc, tasks, chans, now, configured, mwlog, nreg, nreq,
                   dependencies, deplog>>

-----------------------------------------------------------------------------
(* Server lifecycle *)

StartServer ==
    /\ srv = "created"
    /\ srv' = "running"
    /\ ctxDone' = FALSE
    /\ handler' = BuildChain(middlewares)
    /\ UNCHANGED <<routes, middlewares, inflight, resp, apidoc, tasks, chans,
                   now, configured, mwlog, nreg, nreq, depvars>>

(* <-stop; taskCancel(); server.Shutdown(ctx) begins: no new connections. *)
Signal ==
    /\ srv = "running"
    /\ srv' = "shuttingdown"
    /\ ctxDone' = TRUE
    /\ UNCHANGED <<routes, middlewares, handler, inflight, resp, apidoc, tasks,
                   chans, now, configured, mwlog, nreg, nreq, depvars>>

(* server.Shutdown returns: the connections have drained or the 5 s grace
   period is over; handlers still running keep running. *)
Stop ==
    /\ srv = "shuttingdown"
    /\ srv' = "stopped"
    /\ UNCHANGED <<routes, middlewares, handler, ctxDone, inflight, resp,
                   apidoc, tasks, chans, now, configured, mwlog, nreg, nreq, depvars>>

(* Time passes. *)
Tick ==
    /\ now < MaxClock
    /\ now' = now + 1
    /\ UNCHANGED <<routes, middlewares, srv, handler, ctxDone, inflight, resp,
                   apidoc, tasks, chans, configured, mwlog, nreg, nreq, depvars>>

-----------------------------------------------------------------------------
(* Requests *)

RemoveAt(q, i) == SubSeq(q, 1, i - 1) \o SubSeq(q, i + 1, Len(q))

(* The methods under which a path has been registered, by the history. *)
MethodsOf(cfg, path) == {pm[2] : pm \in {x \in DOMAIN cfg : x[1] = path}}

MessageOf(cfg, path, method) ==
    IF <<path, method>> \in DOMAIN cfg THEN cfg[<<path, method>>] ELSE NoMessage

(* The patterns given to the ServeMux; the longest matching pattern wins. *)
Mux(path) ==
    IF path = OpenAPIPattern THEN "ServeOpenAPI"
    ELSE IF HasPrefix(path, SwaggerPattern) THEN "swagger"
    ELSE "root"

(* A connection is accepted and its request is handed to server.Handler. *)
Accept(path, method, limit) ==
    /\ srv = "running"
    /\ nreq < limit
    /\ nreq' = nreq + 1
    /\ inflight' = Append(inflight,
                     [path |-> path, method |-> method, pc |-> "accepted",
                      cfg |-> EmptyMap])
    /\ UNCHANGED <<routes, middlewares, srv, handler, ctxDone, resp, apidoc,
                   tasks, chans, now, configured, mwlog, nreg, depvars>>

(* What a handler wrote.  The remaining fields are history: what had been
   registered for the request's path and (path, method) when the handler looked
   the request up (known0, msg0) and when it answered (known1, msg1), and, for
   the API description, the pairs registered when it was generated. *)
Response(kind, req, status, message, hint, taskID, cfg0) ==
    [kind |-> kind, path |-> req.path, method |-> req.method,
     status |-> status, message |-> message, hint |-> hint, taskID |-> taskID,
     chain |-> handler,
     known0 |-> MethodsOf(cfg0, req.path),
     msg0 |-> MessageOf(cfg0, req.path, req.method),
     known1 |-> MethodsOf(configured, req.path),
     msg1 |-> MessageOf(configured, req.path, req.method),
     pairs |-> IF kind = "openapi" THEN DOMAIN configured ELSE {}]

(* A Paths object built once, when StartServer ran and before any of the
   routes registered afterwards: a cached description. *)
OpenAPIPathsAtStart(rs) == EmptyMap

(* The Paths object built by ServeOpenAPI's loop over the table.  Two routes
   of one path never share a lowercased method here (methods are stored
   uppercased and are ASCII), so the loop's order does not show. *)
OpenAPIPaths(rs) ==
    LET paths == {rs[k].Path : k \in DOMAIN rs}
    IN [p \in paths |->
          LET ks == {k \in DOMAIN rs : rs[k].Path = p}
          IN [m \in {ToLower(rs[k].Method) : k \in ks} |->
                LET k == CHOOSE k \in ks : ToLower(rs[k].Method) = m
                IN [summary |-> rs[k].Description,
                    responses |-> rs[k].Responses[200],
                    parameters |-> rs[k].Parameters]]]

ServeOpenAPI(i) ==
    /\ i \in 1..Len(inflight)
    /\ inflight[i].pc = "accepted"
    /\ Mux(inflight[i].path) = "ServeOpenAPI"
    /\ apidoc' = OpenAPIPaths(routes)
    /\ resp' = Response("openapi", inflight[i], 200, NoMessage, <<>>, 0,
                        configured)
    /\ inflight' = RemoveAt(inflight, i)
    /\ UNCHANGED <<routes, middlewares, srv, handler, ctxDone, tasks, chans,
                   now, configured, mwlog, nreg, nreq, depvars>>

(* http.FileServer under /swagger/: a file of swagger-ui, or its own 404. *)
ServeSwagger(i) ==
    /\ i \in 1..Len(inflight)
    /\ inflight[i].pc = "accepted"
    /\ Mux(inflight[i].path) = "swagger"
    /\ \E status \in {200, 404} :
         resp' = Response("static", inflight[i], status, NoMessage, <<>>, 0,
                        configured)
    /\ inflight' = RemoveAt(inflight, i)
    /\ UNCHANGED <<routes, middlewares, srv, handler, ctxDone, apidoc, tasks,
                   chans, now, configured, mwlog, nreg, nreq, depvars>>

(* key := r.URL.Path + r.Method *)
RequestKey(req) == req.path \o req.method

(* route, exists := routes[key] *)
LookupExists(rs, req) == RequestKey(req) \in DOMAIN rs

(* taskPool.Get(): nothing is ever Put into the pool, so Get calls New, which
   makes a fresh channel of capacity K. *)
TaskPoolGetShared(cs) == 1

TaskPoolGet(cs) == Len(cs) + 1

ChansAfterGet(cs, ch) == IF ch > Len(cs) THEN Append(cs, 0) ELSE cs

(* A handler that acquires the task's slot itself, on one channel of capacity
   K, before it returns: it waits while K tasks hold a slot. *)
DispatchFoundWaiting(i) ==
    /\ i \in 1..Len(inflight)
    /\ inflight[i].pc = "accepted"
    /\ Mux(inflight[i].path) = "root"
    /\ LookupExists(routes, inflight[i])
    /\ Cardinality({t \in 1..Len(tasks) : tasks[t].pc = "running"}) < K
    /\ LET req == inflight[i]
           route == routes[RequestKey(req)]
           taskChan == TaskPoolGet(chans)
       IN /\ resp' = Response("success", req, 200, route.Message, <<>>, now,
                        configured)
          /\ chans' = ChansAfterGet(chans, taskChan)
          /\ tasks' = Append(tasks, [id |-> now, ch |-> taskChan,
                                     pc |-> "spawned", outcome |-> "none"])
    /\ inflight' = RemoveAt(inflight, i)
    /\ UNCHANGED <<routes, middlewares, srv, handler, ctxDone, apidoc, now,
                   configured, mwlog, nreg, nreq, depvars>>

(* The handler of "/" when the key is in the table: the success envelope is
   written, then the task is spawned. *)
DispatchFound(i) ==
    /\ i \in 1..Len(inflight)
    /\ inflight[i].pc = "accepted"
    /\ Mux(inflight[i].path) = "root"
    /\ LookupExists(routes, inflight[i])
    /\ LET req == inflight[i]
           route == routes[RequestKey(req)]
           taskID == now
           taskChan == TaskPoolGet(chans)
       IN /\ resp' = Response("success", req, 200, route.Message, <<>>, taskID,
                        configured)
          /\ chans' = ChansAfterGet(chans, taskChan)
          /\ tasks' = Append(tasks, [id |-> taskID, ch |-> taskChan,
                                     pc |-> "spawned", outcome |-> "none"])
    /\ inflight' = RemoveAt(inflight, i)
    /\ UNCHANGED <<routes, middlewares, srv, handler, ctxDone, apidoc, now,
                   configured, mwlog, nreg, nreq, depvars>>

(* The handler of "/" when the key is not in the table: the first read-locked
   section has ended, the scan for another method is still to come. *)
DispatchMiss(i) ==
    /\ i \in 1..Len(inflight)
    /\ inflight[i].pc = "accepted"
    /\ Mux(inflight[i].path) = "root"
    /\ ~LookupExists(routes, inflight[i])
    /\ LET req == inflight[i]
       IN inflight' = [inflight EXCEPT ![i] =
                         [req EXCEPT !.pc = "scan", !.cfg = configured]]
    /\ UNCHANGED <<routes, middlewares, srv, handler, ctxDone, resp, apidoc,
                   tasks, chans, now, configured, mwlog, nreg, nreq, depvars>>

(* for _, rt := range routes { if rt.Path == path { supportedMethod = rt.Method; break } }
   in the map's order, which is any order: every method the loop can end with. *)
ScanPath(rs, path) ==
    LET hits == {k \in DOMAIN rs : rs[k].Path = path}
    IN IF hits = {} THEN {<<>>} ELSE {rs[k].Method : k \in hits}

(* The second read-locked section and the 404. *)
DispatchNotFound(i) ==
    /\ i \in 1..Len(inflight)
    /\ inflight[i].pc = "scan"
    /\ \E supportedMethod \in ScanPath(routes, inflight[i].path) :
         resp' = Response("error", inflight[i], 404, NoMessage, supportedMethod,
                          0, inflight[i].cfg)
    /\ inflight' = RemoveAt(inflight, i)
    /\ UNCHANGED <<routes, middlewares, srv, handler, ctxDone, apidoc, tasks,
                   chans, now, configured, mwlog, nreg, nreq, depvars>>

-----------------------------------------------------------------------------
(* Background tasks: TaskManager(ctx, taskID, taskChan), one goroutine each *)

(* case taskChan <- struct{}{}: the send is ready while the buffer has room. *)
CanSend(cs, ch) == cs[ch] < K

(* <-taskChan: the receive is ready while the buffer holds a token. *)
CanReceive(cs, ch) == cs[ch] > 0

(* The outer select takes its send case and logs "Starting". *)
TaskStart(i) ==
    /\ i \in 1..Len(tasks)
    /\ tasks[i].pc = "spawned"
    /\ CanSend(chans, tasks[i].ch)
    /\ chans' = [chans EXCEPT ![tasks[i].ch] = @ + 1]
    /\ tasks' = [tasks EXCEPT ![i] = [@ EXCEPT !.pc = "running"]]
    /\ UNCHANGED <<routes, middlewares, srv, handler, ctxDone, inflight, resp,
                   apidoc, now, configured, mwlog, nreg, nreq, depvars>>

(* The outer select takes <-ctx.Done() and logs "not started due to shutdown". *)
TaskNotStarted(i) ==
    /\ i \in 1..Len(tasks)
    /\ tasks[i].pc = "spawned"
    /\ ctxDone
    /\ tasks' = [tasks EXCEPT ![i] =
                   [@ EXCEPT !.pc = "deferred", !.outcome = "notstarted"]]
    /\ UNCHANGED <<routes, middlewares, srv, handler, ctxDone, inflight, resp,
                   apidoc, chans, now, configured, mwlog, nreg, nreq, depvars>>

(* The inner select: the 2 s timer fires, or <-ctx.Done(). *)
TaskFinish(i) ==
    /\ i \in 1..Len(tasks)
    /\ tasks[i].pc = "running"
    /\ \E outcome \in {"completed"} \cup (IF ctxDone THEN {"cancelled"} ELSE {}) :
         tasks' = [tasks EXCEPT ![i] =
                     [@ EXCEPT !.pc = "deferred", !.outcome = outcome]]
    /\ UNCHANGED <<routes, middlewares, srv, handler, ctxDone, inflight, resp,
                   apidoc, chans, now, configured, mwlog, nreg, nreq, depvars>>

(* defer func() { <-taskChan }(): runs on every return, then the goroutine ends. *)
TaskRelease(i) ==
    /\ i \in 1..Len(tasks)
    /\ tasks[i].pc = "deferred"
    /\ CanReceive(chans, tasks[i].ch)
    /\ chans' = [chans EXCEPT ![tasks[i].ch] = @ - 1]
    /\ tasks' = [tasks EXCEPT ![i] = [@ EXCEPT !.pc = "done"]]
    /\ UNCHANGED <<routes, middlewares, srv, handler, ctxDone, inflight, resp,
                   apidoc, now, configured, mwlog, nreg, nreq, depvars>>

-----------------------------------------------------------------------------
(* Specifications *)

(* The globals as initialised at load. *)
Init ==
    /\ routes = EmptyMap
    /\ middlewares = <<>>
    /\ srv = "created"
    /\ handler = NoHandler
    /\ ctxDone = FALSE
    /\ inflight = <<>>
    /\ resp = NoResponse
    /\ apidoc = EmptyMap
    /\ tasks = <<>>
    /\ chans = <<>>
    /\ now = 0
    /\ configured = EmptyMap
    /\ mwlog = <<>>
    /\ nreg = 0
    /\ nreq = 0
    /\ dependencies = EmptyMap
    /\ deplog = <<>>
    /\ depResult = NoResult

Register == \E c \in RegCalls : RegisterRoute(c[1], c[2], c[3], c[4])

Arrive == \E path \in ReqPaths, method \in ReqMethods : Accept(path, method, MaxReqs)

(* Registry and dispatch: registrations at any time, requests once running. *)
Next ==
    \/ Register
    \/ StartServer
    \/ Arrive
    \/ \E i \in 1..MaxReqs : ServeOpenAPI(i)
    \/ \E i \in 1..MaxReqs : ServeSwagger(i)
    \/ \E i \in 1..MaxReqs : DispatchFound(i)
    \/ \E i \in 1..MaxReqs : DispatchMiss(i)
    \/ \E i \in 1..MaxReqs : DispatchNotFound(i)

Spec == Init /\ [][Next]_vars

RegisterEmpty == \E c \in EmptyFieldCalls : RegisterRoute(c[1], c[2], c[3], c[4])

(* The registration surface alone: well-formed calls, calls with a nil
   pointer and calls with an empty string. *)
NextReg ==
    \/ Register
    \/ RegisterEmpty

SpecReg == Init /\ [][NextReg]_vars

RegisterDep == \E c \in DepCalls : RegisterDependency(c[1], c[2])

LookupDep == \E n \in DepNames : GetDependency(n)

(* The dependency store alone. *)
NextDeps ==
    \/ RegisterDep
    \/ LookupDep

SpecDeps == Init /\ [][NextDeps]_vars

(* The server running before any route is registered: the state after
   StartServer up to <-stop. *)
InitRunning ==
    /\ routes = EmptyMap
    /\ configured = EmptyMap
    /\ nreg = 0
    /\ middlewares = <<>>
    /\ mwlog = <<>>
    /\ srv = "running"
    /\ handler = BuildChain(<<>>)
    /\ ctxDone = FALSE
    /\ inflight = <<>>
    /\ resp = NoResponse
    /\ apidoc = EmptyMap
    /\ tasks = <<>>
    /\ chans = <<>>
    /\ now = 0
    /\ nreq = 0
    /\ dependencies = EmptyMap
    /\ deplog = <<>>
    /\ depResult = NoResult

(* Registration while the server runs: every route is registered after
   ListenAndServe was started, between and during requests. *)
LiveCalls ==
    {<<CStr(PathA), CStr(ToLower(MethodPost)), CStr(m), CStr("d")>> :
        m \in Messages}
      \cup {<<CStr(PathAP), CStr(MethodOst), CStr(m), CStr("d")>> :
                m \in Messages}
      \cup {<<NULL, CStr(MethodOst), CStr("m1"), CStr("d")>>}

RegisterLive == \E c \in LiveCalls : RegisterRoute(c[1], c[2], c[3], c[4])

ArriveLive ==
    \E path \in {PathA, PathAP, OpenAPIPattern} :
        Accept(path, MethodPost, MaxReqs)

NextLive ==
    \/ RegisterLive
    \/ ArriveLive
    \/ \E i \in 1..MaxReqs : ServeOpenAPI(i)
    \/ \E i \in 1..MaxReqs : DispatchFound(i)
    \/ \E i \in 1..MaxReqs : DispatchMiss(i)
    \/ \E i \in 1..MaxReqs : DispatchNotFound(i)

SpecLive == InitRunning /\ [][NextLive]_vars

RegisterMw == \E c \in MwCalls : RegisterMiddleware(c[1], c[2])

(* Middleware and lifecycle: registrations at any time; the requests are of a
   path that is not in the (empty) table, so the dispatcher answers 404. *)
NextMw ==
    \/ RegisterMw
    \/ StartServer
    \/ Accept(PathA, MethodPost, MaxReqs)
    \/ \E i \in 1..MaxReqs : DispatchMiss(i)
    \/ \E i \in 1..MaxReqs : DispatchNotFound(i)
    \/ Signal
    \/ Stop

SpecMw == Init /\ [][NextMw]_vars

(* The server running with one route: the state after
   RegisterRoute("/a", "POST", "m1", "d") and StartServer up to <-stop. *)
InitServing ==
    /\ routes = StoreRoute(EmptyMap, PathA, MethodPost, "m1", "d")
    /\ configured = MapPut(EmptyMap, <<PathA, MethodPost>>, "m1")
    /\ nreg = 1
    /\ middlewares = <<>>
    /\ mwlog = <<>>
    /\ srv = "running"
    /\ handler = BuildChain(<<>>)
    /\ ctxDone = FALSE
    /\ inflight = <<>>
    /\ resp = NoResponse
    /\ apidoc = EmptyMap
    /\ tasks = <<>>
    /\ chans = <<>>
    /\ now = 0
    /\ nreq = 0
    /\ dependencies = EmptyMap
    /\ deplog = <<>>
    /\ depResult = NoResult

(* Background tasks: matched requests, their tasks, the clock and shutdown. *)
NextTasks ==
    \/ Accept(PathA, MethodPost, MaxTasks)
    \/ \E i \in 1..MaxTasks : DispatchFound(i)
    \/ \E i \in 1..MaxTasks : TaskStart(i)
    \/ \E i \in 1..MaxTasks : TaskNotStarted(i)
    \/ \E i \in 1..MaxTasks : TaskFinish(i)
    \/ \E i \in 1..MaxTasks : TaskRelease(i)
    \/ Signal
    \/ Stop
    \/ Tick

SpecTasks == InitServing /\ [][NextTasks]_vars

(* The Go scheduler runs every runnable goroutine, and a timer that was set
   fires: a task step that stays possible is taken. *)
TaskFairness ==
    \A i \in 1..MaxTasks :
        /\ WF_vars(TaskStart(i))
        /\ WF_vars(TaskNotStarted(i))
        /\ WF_vars(TaskFinish(i))
        /\ WF_vars(TaskRelease(i))

SpecTasksFair == SpecTasks /\ TaskFairness

(* A burst of K + 1 matched requests inside the 2 s in which no task's timer
   has fired yet. *)
NextBurst ==
    \/ Accept(PathA, MethodPost, K + 1)
    \/ \E i \in 1..(K + 1) : DispatchFound(i)
    \/ \E i \in 1..(K + 1) : TaskStart(i)

SpecBurst == InitServing /\ [][NextBurst]_vars

-----------------------------------------------------------------------------
(* Properties of the registry and the dispatcher, under Spec *)

Answered == resp.kind # "none"

(* A response of the handler of "/", the dispatcher. *)
Dispatched == resp.kind \in {"success", "error"}

(* C2: every request whose (path, method) pair had been registered when it was
   looked up is answered 200 with the success envelope carrying the message
   configured for that pair. *)
C2_RegisteredPairServed ==
    (Answered /\ resp.msg0 # NoMessage)
        => /\ resp.status = 200
           /\ resp.kind = "success"
           /\ resp.message = resp.msg0

(* C3: the table holds at most one entry per (path, METHOD), every entry is
   the one its pair's latest registration wrote, and every registered pair is
   looked up to the message of its latest registration. *)
C3_LastWriteWins ==
    /\ \A k1, k2 \in DOMAIN routes :
         (routes[k1].Path = routes[k2].Path /\ routes[k1].Method = routes[k2].Method)
            => k1 = k2
    /\ \A k \in DOMAIN routes :
         routes[k].Message = MessageOf(configured, routes[k].Path, routes[k].Method)
    /\ \A pm \in DOMAIN configured :
         /\ RouteKey(pm[1], pm[2]) \in DOMAIN routes
         /\ routes[RouteKey(pm[1], pm[2])].Message = configured[pm]

(* C4: a dispatched request whose path is registered under another method and
   not under the requested one gets 404 with a hint naming a method that is
   registered for the path. *)
C4_OtherMethodHint ==
    (/\ Dispatched
     /\ resp.msg0 = NoMessage /\ resp.msg1 = NoMessage
     /\ resp.known0 # {})
        => /\ resp.status = 404
           /\ resp.hint # <<>>
           /\ resp.hint \in resp.known1

(* A handler returns in this step. *)
Returns == Len(inflight') < Len(inflight)

(* C5: a dispatched request whose path is registered under no method gets 404
   without a hint; no task is spawned and the table is left as it was. *)
C5_UnknownPathNoHint ==
    [][(Returns /\ resp'.kind \in {"success", "error"} /\ resp'.known1 = {})
          => /\ resp'.status = 404
             /\ resp'.hint = <<>>
             /\ tasks' = tasks
             /\ routes' = routes]_vars

(* C6: the API description has one paths entry per registered path and, under
   each, one sub-entry per method registered on that path, lowercased. *)
C6_DocumentMatchesRegistrations ==
    resp.kind = "openapi"
        => /\ DOMAIN apidoc = {pm[1] : pm \in resp.pairs}
           /\ \A p \in DOMAIN apidoc :
                DOMAIN apidoc[p] =
                    {ToLower(pm[2]) : pm \in {x \in resp.pairs : x[1] = p}}

-----------------------------------------------------------------------------
(* Properties of the middleware chain, under SpecMw *)

(* The calls that name a known built-in and are enabled. *)
AcceptedMwCalls ==
    {i \in 1..Len(mwlog) :
        /\ ~IsNil(mwlog[i].name)
        /\ GoString(mwlog[i].name) = "logging"
        /\ mwlog[i].enabled # 0}

Wrappers(h) == IF h = NoHandler THEN <<>> ELSE SubSeq(h, 1, Len(h) - 1)

(* C9: the sequence holds one known wrapper per call that named a known
   built-in and was enabled, and nothing for any other call; the chain built
   at start holds wrappers of the sequence only. *)
C9_UnknownOrDisabledSkipped ==
    /\ Len(middlewares) = Cardinality(AcceptedMwCalls)
    /\ \A i \in 1..Len(middlewares) : middlewares[i] = "loggingMiddleware"
    /\ Len(Wrappers(handler)) <= Len(middlewares)
    /\ \A i \in 1..Len(Wrappers(handler)) : handler[i] = "loggingMiddleware"

C9_Witness ==
    /\ srv = "running"
    /\ Len(Wrappers(handler)) = 1
    /\ \E i \in 1..Len(mwlog) :
         ~IsNil(mwlog[i].name) /\ GoString(mwlog[i].name) = "cors"
                               /\ mwlog[i].enabled # 0
    /\ \E i \in 1..Len(mwlog) :
         ~IsNil(mwlog[i].name) /\ GoString(mwlog[i].name) = "logging"
                               /\ mwlog[i].enabled = 0

(* C10: the chain is wrappers[0](wrappers[1](...(mux))) of the sequence read
   when StartServer runs; from then on no step changes it, and it is the chain
   every request is served by. *)
C10_ChainFrozenAtStart ==
    [][/\ (srv = "created" /\ srv' # "created")
            => handler' = middlewares \o <<"mux">>
       /\ srv # "created" => handler' = handler
       /\ Returns => resp'.chain = handler]_vars

C10_Witness ==
    /\ srv # "created"
    /\ Answered
    /\ resp.chain = handler
    /\ Len(middlewares) > Len(Wrappers(handler))
    /\ Len(Wrappers(handler)) > 0

-----------------------------------------------------------------------------
(* Properties of the background tasks *)

(* The tasks that have logged "Starting" and not yet released their slot. *)
Running ==
    {i \in 1..Len(tasks) :
        \/ tasks[i].pc = "running"
        \/ tasks[i].pc = "deferred" /\ tasks[i].outcome # "notstarted"}

(* C1: at most K tasks have started and not yet released their slot
   (under SpecBurst). *)
C1_AtMostKRunning == Cardinality(Running) <= K

(* C7: once the shared context is cancelled no task passes the slot-acquire
   branch (under SpecTasks). *)
C7_NoStartAfterCancel ==
    [][ctxDone => \A i \in 1..Len(tasks) :
                     tasks[i].pc = "spawned" => tasks'[i].pc # "running"]_vars

(* C8: a task that is running when the context is cancelled reaches
   "completed" or "cancelled", releases its slot and its goroutine ends
   (under SpecTasksFair). *)
C8_RunningTasksEnd ==
    \A i \in 1..MaxTasks :
        (ctxDone /\ i <= Len(tasks) /\ tasks[i].pc = "running")
            ~> (/\ i <= Len(tasks)
                /\ tasks[i].pc = "done"
                /\ tasks[i].outcome \in {"completed", "cancelled"}
                /\ ~CanReceive(chans, tasks[i].ch))

C8_Witness ==
    \E i \in 1..Len(tasks) :
        /\ tasks[i].pc = "done"
        /\ tasks[i].outcome = "cancelled"
        /\ \E j \in 1..Len(tasks) : tasks[j].outcome = "notstarted"

-----------------------------------------------------------------------------
(* Properties of the registration surface, under SpecReg *)

(* A required field is missing: its pointer is nil or its string is empty. *)
MissingField(c) ==
    \/ IsNil(c[1]) \/ IsNil(c[2]) \/ IsNil(c[3]) \/ IsNil(c[4])
    \/ Len(GoString(c[1])) = 0
    \/ Len(GoString(c[2])) = 0
    \/ GoString(c[3]) = ""
    \/ GoString(c[4]) = ""

(* C11: a RegisterRoute call with a required field missing, nil or empty,
   leaves the route table as it was. *)
C11_MissingFieldStoresNothing ==
    [][\A c \in RegCalls \cup EmptyFieldCalls :
          (MissingField(c) /\ RegisterRoute(c[1], c[2], c[3], c[4]))
              => routes' = routes]_vars

-----------------------------------------------------------------------------
(* Properties of the dependency store, under SpecDeps *)

(* The positions of the accepted RegisterDependency calls that named n. *)
CallsNaming(n) == {i \in 1..Len(deplog) : deplog[i][1] = n}

Latest(S) == CHOOSE i \in S : \A j \in S : j <= i

(* What a lookup of n is to return after the calls made so far. *)
ExpectedLookup(n) ==
    IF CallsNaming(n) = {}
    THEN [name |-> n, val |-> NilValue, exists |-> FALSE]
    ELSE [name |-> n, val |-> deplog[Latest(CallsNaming(n))][2], exists |-> TRUE]

(* C12: after any sequence of RegisterDependency calls a lookup of a name
   returns the value of the latest call that named it with found = true, and
   found = false for a name never registered; a lookup changes no store. *)
C12_LookupReturnsLatest ==
    [][\A n \in DepNames :
          GetDependency(n) =>
              /\ depResult' = ExpectedLookup(n)
              /\ dependencies' = dependencies
              /\ routes' = routes
              /\ middlewares' = middlewares]_vars

(* A lookup has returned the second of two different values registered under
   one name. *)
C12_Witness ==
    /\ depResult.exists
    /\ \E i, j \in CallsNaming(depResult.name) :
          /\ i < j
          /\ j = Latest(CallsNaming(depResult.name))
          /\ deplog[i][2] # deplog[j][2]
          /\ depResult.val = deplog[j][2]

-----------------------------------------------------------------------------
(* Registration while the server runs, under SpecLive *)

(* The request the dispatcher would look up for a stored pair. *)
RequestFor(path, method) ==
    [path |-> path, method |-> method, pc |-> "accepted", cfg |-> EmptyMap]

(* The document d describes the pair (path, METHOD) with description desc. *)
Describes(d, path, method, desc) ==
    /\ path \in DOMAIN d
    /\ ToLower(method) \in DOMAIN d[path]
    /\ d[path][ToLower(method)].summary = desc

(* C13: a route registered while the server is running is in the table the
   next API description and the next dispatch read: the description generated
   from it names the pair, the dispatcher's lookup of the pair finds the
   message just registered, and every description is generated from the table
   as it is when the request is served. *)
C13_RuntimeRegistrationVisible ==
    [][/\ \A c \in LiveCalls :
            (/\ srv = "running"
             /\ \A f \in 1..4 : ~IsNil(c[f])
             /\ RegisterRoute(c[1], c[2], c[3], c[4]))
                => LET path == GoString(c[1])
                       method == ToUpper(GoString(c[2]))
                   IN /\ Describes(OpenAPIPaths(routes'), path, method,
                                   GoString(c[4]))
                      /\ LookupExists(routes', RequestFor(path, method))
                      /\ routes'[RequestKey(RequestFor(path, method))].Message
                            = GoString(c[3])
       /\ (Returns /\ resp'.kind = "openapi")
             => \A k \in DOMAIN routes :
                   Describes(apidoc', routes[k].Path, routes[k].Method,
                             routes[k].Description)]_vars

(* A description generated while the server runs names a route that was
   registered after the server started. *)
C13_Witness ==
    /\ srv = "running"
    /\ resp.kind = "openapi"
    /\ \E k \in DOMAIN routes :
          Describes(apidoc, routes[k].Path, routes[k].Method,
                    routes[k].Description)

-----------------------------------------------------------------------------
(* Token accounting, under SpecTasks *)

(* The tasks that sent a token into channel c and have not received one back. *)
Holders(c) == {i \in Running : tasks[i].ch = c}

(* C14: in every state the tokens in a slot channel are as many as the tasks
   holding a slot on it; a task that has returned had put a token in and took
   one out, and a task that never acquired a slot has taken none. *)
C14_TokensMatchHolders ==
    /\ \A c \in 1..Len(chans) : chans[c] = Cardinality(Holders(c))
    /\ \A i \in 1..Len(tasks) :
          /\ tasks[i].pc = "done" => tasks[i].outcome \in {"completed", "cancelled"}
          /\ tasks[i].outcome = "notstarted" => tasks[i].pc = "deferred"

(* One task has put its token in and taken it out again, another never
   acquired a slot, and every channel is empty. *)
C14_Witness ==
    \E i, j \in 1..Len(tasks) :
        /\ tasks[i].pc = "done"
        /\ tasks[j].outcome = "notstarted"
        /\ \A c \in 1..Len(chans) : chans[c] = 0

(* C15: a task that took the "not started due to shutdown" branch returns
   without blocking: the receive its return runs finds a token to take. *)
C15_NotStartedReturns ==
    \A i \in 1..Len(tasks) :
        (tasks[i].outcome = "notstarted" /\ tasks[i].pc = "deferred")
            => CanReceive(chans, tasks[i].ch)

-----------------------------------------------------------------------------
(* The handler and its task, under SpecBurst *)

(* The requests the dispatcher has been handed whose key is in the table. *)
MatchedWaiting ==
    {i \in 1..Len(inflight) :
        /\ inflight[i].pc = "accepted"
        /\ Mux(inflight[i].path) = "root"
        /\ LookupExists(routes, inflight[i])}

(* C16: a matched request can be answered in every state, whatever the tasks
   are doing and also when K of them hold a slot; the handler returns having
   spawned one task that has not yet acquired anything, so the tasks are as
   many as the matched requests answered. *)
C16_HandlerNeverWaits ==
    /\ \A i \in MatchedWaiting : ENABLED DispatchFound(i)
    /\ Len(tasks) = nreq - Len(inflight)
    /\ resp.kind = "success" =>
          /\ tasks[Len(tasks)].id = resp.taskID
          /\ tasks[Len(tasks)].pc \in {"spawned", "running"}

(* The last request of the burst was answered while K tasks held a slot, and
   its task has been spawned. *)
C16_Witness ==
    /\ Cardinality(Running) = K
    /\ nreq = K + 1
    /\ inflight = <<>>
    /\ resp.kind = "success"
    /\ Len(tasks) = K + 1
    /\ tasks[K + 1].pc = "spawned"

-----------------------------------------------------------------------------
(* Keys, methods and identifiers *)

(* C17: two registrations of different (path, METHOD) pairs are stored under
   different keys, and each stays retrievable as it was registered
   (under Spec). *)
C17_DistinctPairsDistinctKeys ==
    \A a, b \in DOMAIN configured :
        a # b =>
            /\ RouteKey(a[1], a[2]) # RouteKey(b[1], b[2])
            /\ \A p \in {a, b} :
                  /\ RouteKey(p[1], p[2]) \in DOMAIN routes
                  /\ routes[RouteKey(p[1], p[2])].Path = p[1]
                  /\ routes[RouteKey(p[1], p[2])].Method = p[2]

(* C18: the dispatcher looks up path + uppercase(method): a request whose
   method, uppercased, was registered for its path when it was looked up gets
   the success envelope, whatever the case the method was sent in
   (under Spec). *)
C18_MethodCaseInsensitive ==
    (Dispatched /\ ToUpper(resp.method) # resp.method
                /\ ToUpper(resp.method) \in resp.known0)
        => /\ resp.kind = "success"
           /\ resp.status = 200

(* C19: any two tasks, spawned for two matched requests, have different task
   identifiers, also when the clock did not advance between the two reads
   (under SpecTasks). *)
C19_TaskIdsDistinct ==
    \A i, j \in 1..Len(tasks) : i # j => tasks[i].id # tasks[j].id

(* C20: a 404 never carries a hint that names the method the request was made
   with, under any interleaving of RegisterRoute with the dispatch
   (under Spec). *)
C20_HintNeverAttemptedMethod ==
    (resp.kind = "error" /\ resp.status = 404) => resp.hint # resp.method

=============================================================================
